---- MODULE Spec2Model ----
(***************************************************************************)
(* A model of rtttl_player.py: the RTTTL note and header parser, the song  *)
(* cursor (RTTTLSong) and the poll-driven player (RTTTLPlayer).            *)
(*                                                                         *)
(* Representation.                                                         *)
(*  - A Python str is a sequence of one-character strings.                 *)
(*  - An optional value (None or v) is <<>> or <<v>>.                      *)
(*  - A note duration is held in HALF beats (Python's value times 2): the  *)
(*    only non-integers the code produces are d * 1.5 for an integer d,    *)
(*    which is exact in halves.                                            *)
(*  - PIANO holds millihertz, so that int(PIANO[k]) is a division.         *)
(***************************************************************************)
EXTENDS Integers, Sequences, FiniteSets, TLC

VARIABLES
    songs,              \* song id -> the RTTTLSong object
    _paused,            \* RTTTLPlayer._paused
    _complete,          \* RTTTLPlayer._complete
    _next_update_time,  \* RTTTLPlayer._next_update_time
    _next_update_state, \* RTTTLPlayer._next_update_state
    _also_notify,       \* RTTTLPlayer._also_notify
    _song,              \* RTTTLPlayer._song: a song id, or NoSong
    frequency,          \* _base_tone.frequency
    duty_cycle,         \* _base_tone.duty_cycle
    clock,              \* what monotonic_ms() reads
    lastOp,             \* the call that produced this state, and its branch
    ret,                \* what that call returned (or the exception it raised)
    writes,             \* the writes that call made to _base_tone, in order
    calls,              \* the listener calls that call made, in order
    rewound,            \* a listener called load() or reset() during that call
    stopped,            \* stop() was called and load() has not been since
    halted,             \* stop() was called and neither load() nor reset() has been since
    snap,               \* the timing state when pause() was called
    produced,           \* the notes next_note() returned to a direct caller
    ticks,              \* how many times the host has let the clock move on
    parsed              \* the last direct call of the parser: its arguments and result

vars == <<songs, _paused, _complete, _next_update_time, _next_update_state,
          _also_notify, _song, frequency, duty_cycle, clock, lastOp, ret,
          writes, calls, rewound, stopped, halted, snap, produced, ticks, parsed>>

(***************************************************************************)
(* Bounds of the model.                                                    *)
(***************************************************************************)
MaxTicks == 3
MaxLoopCount == 3
MaxListeners == 2
MaxSongs == 2
MaxNotes == 3
MaxLoops == 2
HostTicks == 2

(***************************************************************************)
(* Python values.                                                          *)
(***************************************************************************)
None == <<>>
Some(v) == <<v>>
IsNone(o) == o = <<>>
Val(o) == o[1]

Digits == {"0", "1", "2", "3", "4", "5", "6", "7", "8", "9"}

\* str.isdigit() of a one-character string
isdigit(c) == c \in Digits

DigitVal(c) ==
    CASE c = "0" -> 0 [] c = "1" -> 1 [] c = "2" -> 2 [] c = "3" -> 3
      [] c = "4" -> 4 [] c = "5" -> 5 [] c = "6" -> 6 [] c = "7" -> 7
      [] c = "8" -> 8 [] c = "9" -> 9

DigitChar(n) ==
    CASE n = 0 -> "0" [] n = 1 -> "1" [] n = 2 -> "2" [] n = 3 -> "3"
      [] n = 4 -> "4" [] n = 5 -> "5" [] n = 6 -> "6" [] n = 7 -> "7"
      [] n = 8 -> "8" [] n = 9 -> "9"

RECURSIVE DigitsVal(_)
DigitsVal(s) ==
    IF s = <<>> THEN 0
    ELSE 10 * DigitsVal(SubSeq(s, 1, Len(s) - 1)) + DigitVal(s[Len(s)])

\* The whitespace int() skips at both ends of an ASCII str: space, \t, \n,
\* \r, \f and \v (the texts of the model are ASCII).
IntSpace == {" ", "\t", "\n", "\r", "\f", ""}

\* The characters str.strip() removes: str.isspace() over ASCII, which adds
\* the separators \x1c to \x1f.
StrSpace == IntSpace \cup {"", "", "", ""}

\* s without its leading and without its trailing characters of set ws
RECURSIVE lstripOf(_, _)
lstripOf(s, ws) ==
    IF s # <<>> /\ s[1] \in ws THEN lstripOf(Tail(s), ws) ELSE s

RECURSIVE rstripOf(_, _)
rstripOf(s, ws) ==
    IF s # <<>> /\ s[Len(s)] \in ws
    THEN rstripOf(SubSeq(s, 1, Len(s) - 1), ws)
    ELSE s

\* what is left of the argument of int() without the whitespace around it
\* and without its sign
IntBody(s) ==
    LET t == rstripOf(lstripOf(s, IntSpace), IntSpace)
    IN  IF t # <<>> /\ t[1] \in {"-", "+"} THEN Tail(t) ELSE t

IntNegative(s) ==
    LET t == lstripOf(s, IntSpace) IN t # <<>> /\ t[1] = "-"

\* int(s) of a str: whitespace, an optional sign, then decimal digits with
\* single underscores allowed between them, whitespace; else ValueError
IntOk(s) ==
    LET r == IntBody(s)
    IN  /\ r # <<>>
        /\ isdigit(r[1])
        /\ isdigit(r[Len(r)])
        /\ \A i \in 1..Len(r) : isdigit(r[i]) \/ r[i] = "_"
        /\ \A i \in 1..(Len(r) - 1) : ~(r[i] = "_" /\ r[i + 1] = "_")

int(s) ==
    LET n == DigitsVal(SelectSeq(IntBody(s), isdigit))
    IN  IF IntNegative(s) THEN 0 - n ELSE n

\* str(n) of an int
RECURSIVE NatStr(_)
NatStr(n) ==
    IF n < 10 THEN <<DigitChar(n)>>
    ELSE Append(NatStr(n \div 10), DigitChar(n % 10))

str(n) == IF n < 0 THEN <<"-">> \o NatStr(0 - n) ELSE NatStr(n)

\* int(x) of a quotient a / b, b # 0: truncation toward zero
TruncDiv(a, b) ==
    LET q == (IF a < 0 THEN 0 - a ELSE a) \div (IF b < 0 THEN 0 - b ELSE b)
    IN  IF (a < 0) = (b < 0) THEN q ELSE 0 - q

Upper == <<"A", "B", "C", "D", "E", "F", "G", "H", "I", "J", "K", "L", "M",
           "N", "O", "P", "Q", "R", "S", "T", "U", "V", "W", "X", "Y", "Z">>
Lower == <<"a", "b", "c", "d", "e", "f", "g", "h", "i", "j", "k", "l", "m",
           "n", "o", "p", "q", "r", "s", "t", "u", "v", "w", "x", "y", "z">>

lowerChar(c) ==
    IF \E i \in 1..26 : Upper[i] = c
    THEN Lower[CHOOSE i \in 1..26 : Upper[i] = c]
    ELSE c

\* str.lower()
lower(s) == [i \in 1..Len(s) |-> lowerChar(s[i])]

\* str.lstrip(), str.rstrip(), str.strip(): whitespace removed
lstrip(s) == lstripOf(s, StrSpace)

rstrip(s) == rstripOf(s, StrSpace)

strip(s) == rstrip(lstrip(s))

\* str.split(sep): the pieces between the separators (one more than the
\* number of separators: the split of "" is [""])
RECURSIVE split(_, _)
split(s, sep) ==
    IF \A i \in 1..Len(s) : s[i] # sep THEN <<s>>
    ELSE LET k == CHOOSE i \in 1..Len(s) :
                      s[i] = sep /\ \A j \in 1..(i - 1) : s[j] # sep
         IN  <<SubSeq(s, 1, k - 1)>> \o split(SubSeq(s, k + 1, Len(s)), sep)

\* c in s
Contains(s, c) == \E i \in 1..Len(s) : s[i] = c

(***************************************************************************)
(* PIANO (lines 32-71), in millihertz.                                     *)
(***************************************************************************)
PIANO ==
    (<<"4", "c">> :> 261626) @@ (<<"4", "c", "#">> :> 277183) @@
    (<<"4", "d">> :> 293665) @@ (<<"4", "d", "#">> :> 311127) @@
    (<<"4", "e">> :> 329628) @@ (<<"4", "f">> :> 349228) @@
    (<<"4", "f", "#">> :> 369994) @@ (<<"4", "g">> :> 391995) @@
    (<<"4", "g", "#">> :> 415305) @@ (<<"4", "a">> :> 440000) @@
    (<<"4", "a", "#">> :> 466164) @@ (<<"4", "b">> :> 493883) @@
    (<<"5", "c">> :> 523251) @@ (<<"5", "c", "#">> :> 554365) @@
    (<<"5", "d">> :> 587330) @@ (<<"5", "d", "#">> :> 622254) @@
    (<<"5", "e">> :> 659255) @@ (<<"5", "f">> :> 698456) @@
    (<<"5", "f", "#">> :> 739989) @@ (<<"5", "g">> :> 783991) @@
    (<<"5", "g", "#">> :> 830609) @@ (<<"5", "a">> :> 880000) @@
    (<<"5", "a", "#">> :> 932328) @@ (<<"5", "b">> :> 987767) @@
    (<<"6", "c">> :> 1046500) @@ (<<"6", "c", "#">> :> 1108730) @@
    (<<"6", "d">> :> 1174660) @@ (<<"6", "d", "#">> :> 1244510) @@
    (<<"6", "e">> :> 1318510) @@ (<<"6", "f">> :> 1396910) @@
    (<<"6", "f", "#">> :> 1479980) @@ (<<"6", "g">> :> 1567980) @@
    (<<"6", "g", "#">> :> 1661220) @@ (<<"6", "a">> :> 1760000) @@
    (<<"6", "a", "#">> :> 1864660) @@ (<<"6", "b">> :> 1975530) @@
    (<<"7", "c">> :> 2093000) @@ (<<"7", "c", "#">> :> 2217460)

(***************************************************************************)
(* _parse_note (lines 73-93).  The result is a record: error is "none" or  *)
(* the exception raised; note_duration is in half beats.                   *)
(***************************************************************************)
ParseFail(e) == [error |-> e, piano_note |-> <<>>, note_duration |-> 0]

\* lines 75-84 without the two-digit case of lines 76-78
NoteHeadOneDigit(note) ==
    IF Len(note) = 0 THEN ParseFail("IndexError")
    ELSE IF isdigit(note[1]) THEN
        IF Len(note) = 1 THEN ParseFail("IndexError")
        ELSE [error |-> "none", piano_note |-> <<note[2]>>,
              note_duration |-> Some(int(<<note[1]>>))]
    ELSE [error |-> "none", piano_note |-> <<note[1]>>, note_duration |-> None]

\* lines 75-84: the explicit duration (None when absent) and the pitch letter
NoteHead(note) ==
    IF Len(note) = 0 THEN ParseFail("IndexError")
    ELSE IF isdigit(note[1]) /\ Len(note) = 1 THEN ParseFail("IndexError")
    ELSE IF isdigit(note[1]) /\ isdigit(note[2]) THEN
        IF Len(note) < 3 THEN ParseFail("IndexError")
        ELSE [error |-> "none", piano_note |-> <<note[3]>>,
              note_duration |-> Some(int(SubSeq(note, 1, 2)))]
    ELSE IF isdigit(note[1]) THEN
        [error |-> "none", piano_note |-> <<note[2]>>,
         note_duration |-> Some(int(<<note[1]>>))]
    ELSE [error |-> "none", piano_note |-> <<note[1]>>, note_duration |-> None]

\* lines 85-86: a dotted note is 1.5 times as long (d is in beats, the result
\* in half beats)
Dotted(note, d) == IF Contains(note, ".") THEN 3 * d ELSE 2 * d

\* lines 87-88
Sharp(note, piano_note) ==
    IF Contains(note, "#") THEN piano_note \o <<"#">> ELSE piano_note

\* lines 89-91: octave is the str of the default unless the last character
\* is a digit
NoteOctave(note, octave) ==
    IF isdigit(note[Len(note)]) THEN <<note[Len(note)]>> ELSE octave

\* duration: the default, an int of beats; octave: str(default), a str
_parse_note(raw, duration, octave) ==
    LET note == strip(raw)
        head == NoteHead(note)
    IN  IF head.error # "none" THEN head
        ELSE [error |-> "none",
              piano_note |-> NoteOctave(note, octave) \o Sharp(note, head.piano_note),
              note_duration |->
                  Dotted(note, IF IsNone(head.note_duration) THEN duration
                               ELSE Val(head.note_duration))]

(***************************************************************************)
(* RTTTLSong (lines 96-146).                                               *)
(***************************************************************************)
\* self.octave is an int (the argument, the fallback) or a str (the header)
OInt(n) == <<"int", n>>
OStr(s) == <<"str", s>>

\* Python truthiness of an optional int, and of self.octave
TruthyInt(o) == Len(o) # 0 /\ Val(o) # 0
TruthyOctave(o) ==
    /\ Len(o) # 0
    /\ IF o[1] = "int" THEN o[2] # 0 ELSE Len(o[2]) # 0

\* str(octave), line 89
OctaveStr(o) == IF o[1] = "int" THEN str(o[2]) ELSE o[2]

\* default[2:]
From2(default) == SubSeq(default, 3, Len(default))

\* lines 103-108: one token of the header; tempo is the constructor's
\* argument, which line 107 tests instead of self.tempo
ApplyDefault(st, default, tempo) ==
    IF st.error # "none" THEN st
    ELSE IF Len(default) = 0 THEN [st EXCEPT !.error = "IndexError"]
    ELSE IF default[1] = "d" /\ ~TruthyInt(st.duration) THEN
        IF IntOk(From2(default))
        THEN [st EXCEPT !.duration = Some(int(From2(default)))]
        ELSE [st EXCEPT !.error = "ValueError"]
    ELSE IF default[1] = "o" /\ ~TruthyOctave(st.octave) THEN
        [st EXCEPT !.octave = OStr(From2(default))]
    ELSE IF default[1] = "b" /\ ~TruthyInt(tempo) THEN
        IF IntOk(From2(default))
        THEN [st EXCEPT !.tempo = Some(int(From2(default)))]
        ELSE [st EXCEPT !.error = "ValueError"]
    ELSE st

\* lines 102-108
RECURSIVE ApplyDefaults(_, _, _)
ApplyDefaults(st, defaults, tempo) ==
    IF defaults = <<>> THEN st
    ELSE ApplyDefaults(ApplyDefault(st, Head(defaults), tempo), Tail(defaults), tempo)

\* lines 109-114: the hardcoded fallbacks
Fallbacks(st) ==
    [st EXCEPT
        !.octave = IF TruthyOctave(st.octave) THEN st.octave ELSE OInt(6),
        !.duration = IF TruthyInt(st.duration) THEN st.duration ELSE Some(4),
        !.tempo = IF TruthyInt(st.tempo) THEN st.tempo ELSE Some(63)]

\* lines 98-114: the resolved defaults
Defaults(defaults, octave, duration, tempo) ==
    LET st0 == [error |-> "none", octave |-> octave, duration |-> duration,
                tempo |-> tempo]
        st1 == ApplyDefaults(st0, split(defaults, ","), tempo)
    IN  IF st1.error # "none" THEN st1 ELSE Fallbacks(st1)

\* lines 124-127: int(PIANO[piano_note]) or None
NoteFrequency(piano_note) ==
    IF piano_note \in DOMAIN PIANO THEN Some(PIANO[piano_note] \div 1000)
    ELSE None

\* lines 121-128: the notes, or the first exception _parse_note raises
RECURSIVE ParseNotes(_, _, _)
ParseNotes(tokens, duration, octave) ==
    IF tokens = <<>> THEN [error |-> "none", notes |-> <<>>]
    ELSE LET p == _parse_note(Head(tokens), duration, octave)
             rest == ParseNotes(Tail(tokens), duration, octave)
         IN  IF p.error # "none" THEN [error |-> p.error, notes |-> <<>>]
             ELSE IF rest.error # "none" THEN rest
             ELSE [error |-> "none",
                   notes |-> <<<<NoteFrequency(p.piano_note), p.note_duration>>>>
                             \o rest.notes]

SongFail(e) ==
    [error |-> e, octave |-> None, duration |-> None, tempo |-> None,
     _loops |-> 0, _loop_count |-> 0, _notes |-> <<>>, _notes_index |-> 0]

\* RTTTLSong.__init__ (lines 97-128).  octave is None or OInt(n); duration
\* and tempo are None or Some(n).  error names the exception construction
\* raised, "none" when it returned.
RTTTLSong(rtttl, octave, duration, tempo, loops) ==
    LET parts == split(lower(rtttl), ":")
    IN  IF Len(parts) # 3 THEN SongFail("ValueError")
        ELSE
        LET d == Defaults(parts[2], octave, duration, tempo)
        IN  IF d.error # "none" THEN SongFail(d.error)
            ELSE
            LET n == ParseNotes(split(parts[3], ","), Val(d.duration),
                                OctaveStr(d.octave))
            IN  IF n.error # "none" THEN SongFail(n.error)
                ELSE [error |-> "none", octave |-> d.octave,
                      duration |-> d.duration, tempo |-> d.tempo,
                      _loops |-> loops, _loop_count |-> 0,
                      _notes |-> n.notes, _notes_index |-> 0]

\* line 143 with > for >=
completeStrict(s) == s._notes_index > Len(s._notes)

\* RTTTLSong.complete (lines 141-143)
complete(s) == s._notes_index >= Len(s._notes)

\* line 146 with the loop count restored as well
resetLoopCount(s) == [s EXCEPT !._notes_index = 0, !._loop_count = 0]

\* RTTTLSong.reset (lines 145-146)
reset(s) == [s EXCEPT !._notes_index = 0]

\* line 136 with < for <=
RepeatsStrict(s) == s._loops = -1 \/ s._loop_count < s._loops

\* line 136 without the test for -1
RepeatsNoForever(s) == s._loop_count <= s._loops

\* line 136: whether the song starts over after its last note
Repeats(s) == s._loops = -1 \/ s._loop_count <= s._loops

\* RTTTLSong.next_note (lines 130-139): the song after the call.  Called
\* with the cursor past the end, line 131 raises IndexError (NextNoteRaises).
NextNoteRaises(s) == s._notes_index >= Len(s._notes)

next_note(s) ==
    LET s1 == [s EXCEPT !._notes_index = @ + 1]
    IN  IF complete(s1)
        THEN LET s2 == [s1 EXCEPT !._loop_count = @ + 1]
             IN  IF Repeats(s2) THEN reset(s2) ELSE s2
        ELSE s1

\* the note next_note returns (line 131)
NoteAt(s) == s._notes[s._notes_index + 1]

(***************************************************************************)
(* RTTTLPlayer (lines 149-221).                                            *)
(***************************************************************************)
TONE_ON == 0
TONE_OFF == 1
TONE_GAP == 20

\* 2 ** 15, line 196
DutyOn == 32768

\* the frequency pwmio.PWMOut starts with when none is given (line 163)
InitialFrequency == 500

\* self._song = None
NoSong == 0

\* line 178 without the test of _complete
PlayGuardNoComplete(paused, complete_, song) == paused \/ song = NoSong

\* line 178 without the test of _paused
PlayGuardNoPaused(paused, complete_, song) == complete_ \/ song = NoSong

\* line 178
PlayGuard(paused, complete_, song) == paused \/ complete_ \/ song = NoSong

\* lines 181-183 left out: every poll is due
DueAlways(now, next_update_time) == TRUE

\* line 182, negated: the step is due
Due(now, next_update_time) == ~(now < next_update_time)

\* line 198: int(4 / note_duration * 60 * 1000 / tempo), note_duration in
\* half beats and not 0
NoteMs(note_duration, tempo) == TruncDiv(480000, note_duration * tempo)

\* lines 177-206 with the tone phase tested before song.complete, so that the
\* OFF step of the last note runs before the end of the cycle
PlayBranchOffFirst ==
    IF PlayGuard(_paused, _complete, _song) THEN "play_idle"
    ELSE IF ~Due(clock, _next_update_time) THEN "play_wait"
    ELSE IF _next_update_state = TONE_OFF THEN "play_off"
    ELSE IF complete(songs[_song]) THEN "play_end"
    ELSE IF NoteAt(songs[_song])[2] = 0 THEN "play_ZeroDivisionError"
    ELSE "play_on"

\* The branch of play() (lines 177-206) the current state takes.
PlayBranch ==
    IF PlayGuard(_paused, _complete, _song) THEN "play_idle"
    ELSE IF ~Due(clock, _next_update_time) THEN "play_wait"
    ELSE IF complete(songs[_song]) THEN "play_end"
    ELSE IF _next_update_state = TONE_ON THEN
        IF NextNoteRaises(songs[_song]) THEN "play_IndexError"
        ELSE IF NoteAt(songs[_song])[2] = 0 THEN "play_ZeroDivisionError"
        ELSE "play_on"
    ELSE "play_off"

PlayOps == {"play_idle", "play_wait", "play_end", "play_on", "play_off",
            "play_IndexError", "play_ZeroDivisionError"}

\* lines 194-196: the writes of the ON step to the tone output
OnWrites(note_frequency) ==
    IF IsNone(note_frequency) THEN <<>>
    ELSE <<<<"frequency", Val(note_frequency)>>, <<"duty_cycle", DutyOn>>>>

\* The songs the host may construct: the text and the loops argument.
Catalogue ==
    << [rtttl |-> <<"a", ":", "d", "=", "4", ",", "o", "=", "5", ",", "b", "=", "6", "3", ":", "c">>,
        loops |-> 0],
       [rtttl |-> <<"b", ":", "d", "=", "3", "2", ",", "o", "=", "5", ",", "b", "=", "3", "7", "5", ":", "p", ",", "c">>,
        loops |-> 0],
       [rtttl |-> <<"f", ":", "d", "=", "4", ",", "o", "=", "5", ",", "b", "=", "2", "5", "0", "0", ":", "9", "9", "c">>,
        loops |-> 1],
       [rtttl |-> <<"z", ":", "d", "=", "3", "2", ",", "o", "=", "5", ",", "b", "=", "3", "7", "5", ":", "0", "c", ",", "c">>,
        loops |-> -1] >>

(***************************************************************************)
(* The player and its host.                                                *)
(***************************************************************************)
\* the callbacks the host registers, in the order it registers them
Callbacks == <<"cb2", "cb1", "cb3">>

\* how far the host lets the clock run between two calls
TickSteps == {TONE_GAP, 952}

core == <<songs, _paused, _complete, _next_update_time, _next_update_state,
          _also_notify, _song, frequency, duty_cycle>>

NoSnap == <<>>
Timing == <<_next_update_time, _next_update_state, _song, songs, _complete>>

\* the value of attribute attr after the writes ws, v before them
RECURSIVE After(_, _, _)
After(ws, attr, v) ==
    IF ws = <<>> THEN v
    ELSE After(Tail(ws), attr, IF Head(ws)[1] = attr THEN Head(ws)[2] ELSE v)

\* RTTTLPlayer.__init__ (lines 155-163), the clock reading 0
PlayerInit ==
    /\ _paused = FALSE
    /\ _complete = FALSE
    /\ clock = 0
    /\ _next_update_time = 0
    /\ _next_update_state = TONE_ON
    /\ _also_notify = <<>>
    /\ _song = NoSong
    /\ frequency = InitialFrequency
    /\ duty_cycle = 0
    /\ lastOp = "init"
    /\ ret = "None"
    /\ writes = <<>>
    /\ calls = <<>>
    /\ rewound = FALSE
    /\ stopped = FALSE
    /\ halted = FALSE
    /\ snap = NoSnap
    /\ produced = <<>>
    /\ ticks = 0

\* song i of the catalogue as its constructor leaves it (lines 97-128)
Constructed(i) ==
    RTTTLSong(Catalogue[i].rtttl, None, None, None, Catalogue[i].loops)

\* the catalogue's songs, as constructed
Built == [i \in 1..Len(Catalogue) |-> Constructed(i)]

\* The host constructs some songs of the catalogue, then the player.
Init ==
    /\ \E made \in SUBSET (1..Len(Catalogue)) :
          /\ made # {}
          /\ Cardinality(made) <= MaxSongs
          /\ songs = [i \in made |->
                         RTTTLSong(Catalogue[i].rtttl, None, None, None,
                                   Catalogue[i].loops)]
    /\ PlayerInit
    /\ parsed = <<>>

\* lines 217-221 without lines 220-221: the loaded song is not rewound
player_reset_keeps_cursor == songs

\* lines 220-221: the songs ss after the song loaded, if any, is rewound
reset_song(ss, song) ==
    IF song # NoSong THEN [ss EXCEPT ![song] = reset(ss[song])] ELSE ss

\* RTTTLPlayer.reset (lines 217-221): the songs after it
player_reset_songs == reset_song(songs, _song)

\* lines 165-167 with a load() that also restarts the tone schedule
LoadRestartsTone(s) ==
    /\ _complete' = FALSE
    /\ _paused' = FALSE
    /\ songs' = player_reset_songs
    /\ _song' = s
    /\ _next_update_time' = clock
    /\ _next_update_state' = TONE_ON
    /\ lastOp' = "load"
    /\ ret' = "None"
    /\ writes' = <<>>
    /\ calls' = <<>>
    /\ rewound' = FALSE
    /\ stopped' = FALSE
    /\ halted' = FALSE
    /\ snap' = NoSnap
    /\ UNCHANGED <<_also_notify, frequency, duty_cycle, clock, produced, ticks,
                   parsed>>

\* RTTTLPlayer.load (lines 165-167)
Load(s) ==
    /\ _complete' = FALSE
    /\ _paused' = FALSE
    /\ songs' = player_reset_songs
    /\ _song' = s
    /\ lastOp' = "load"
    /\ ret' = "None"
    /\ writes' = <<>>
    /\ calls' = <<>>
    /\ rewound' = FALSE
    /\ stopped' = FALSE
    /\ halted' = FALSE
    /\ snap' = NoSnap
    /\ UNCHANGED <<_next_update_time, _next_update_state, _also_notify,
                   frequency, duty_cycle, clock, produced, ticks, parsed>>

\* RTTTLPlayer.add_complete_receiver (lines 174-175)
AddCompleteReceiver(cb) ==
    /\ Len(_also_notify) < MaxListeners
    /\ Len(_also_notify) < Len(Callbacks)
    /\ cb = Callbacks[Len(_also_notify) + 1]
    /\ _also_notify' = Append(_also_notify, cb)
    /\ lastOp' = "add_complete_receiver"
    /\ ret' = "None"
    /\ writes' = <<>>
    /\ calls' = <<>>
    /\ rewound' = FALSE
    /\ snap' = NoSnap
    /\ UNCHANGED <<songs, _paused, _complete, _next_update_time,
                   _next_update_state, _song, frequency, duty_cycle, clock,
                   stopped, halted, produced, ticks, parsed>>

(***************************************************************************)
(* Listeners are code of the host, called with the player in the middle of *)
(* on_complete().  What a listener does with the player is a choice of the *)
(* host at each call: nothing, player.load(song), player.reset(),          *)
(* player.stop(), player.pause(), player.resume(),                         *)
(* player.add_complete_receiver(callback), or raising an exception.        *)
(***************************************************************************)
Passive == [do |-> "nothing", song |-> NoSong]

\* the listeners of a host whose listeners leave the player alone
PassiveMoves == {Passive}

\* the listeners of a host whose listeners may call the player back
ListenerMoves ==
    {Passive, [do |-> "reset", song |-> NoSong],
     [do |-> "stop", song |-> NoSong], [do |-> "pause", song |-> NoSong],
     [do |-> "resume", song |-> NoSong],
     [do |-> "add_complete_receiver", song |-> NoSong],
     [do |-> "raise", song |-> NoSong]}
    \cup {[do |-> "load", song |-> s] : s \in DOMAIN songs}

\* the player as on_complete() finds it; calls collects the listener calls,
\* rewound is set when a listener called load() or reset(), and raised when
\* a listener raised
ThePlayer ==
    [_complete |-> _complete, _paused |-> _paused, songs |-> songs,
     _song |-> _song, _also_notify |-> _also_notify, stopped |-> stopped, halted |-> halted,
     calls |-> <<>>, rewound |-> FALSE, raised |-> FALSE]

\* RTTTLPlayer.reset (lines 217-221) called on player p
player_reset(p) ==
    [p EXCEPT !._complete = FALSE, !._paused = FALSE, !.halted = FALSE,
              !.songs = reset_song(p.songs, p._song)]

\* RTTTLPlayer.load (lines 165-167) called on player p
player_load(p, s) ==
    [player_reset(p) EXCEPT !._song = s, !.stopped = FALSE]

\* lines 171-172, one turn of the loop: the i-th listener, if there is one and
\* no listener has raised, is called with the player p as it then is and
\* makes one of the moves.  The players it may leave, one for each move (a
\* registration beyond MaxListeners is not among them).
ListenerCall(p, i, duty, moves) ==
    IF p.raised \/ i > Len(p._also_notify) THEN {p}
    ELSE
    LET called == [p EXCEPT !.calls =
                      Append(@, [callback |-> p._also_notify[i],
                                 complete |-> p._complete,
                                 duty_cycle |-> duty])]
        n == Len(p._also_notify)
        After1(m) ==
            CASE m.do = "nothing" -> {called}
              [] m.do = "load" ->
                    {[player_load(called, m.song) EXCEPT !.rewound = TRUE]}
              [] m.do = "reset" ->
                    {[player_reset(called) EXCEPT !.rewound = TRUE]}
              [] m.do = "stop" ->
                    {[called EXCEPT !._complete = TRUE, !.stopped = TRUE,
                              !.halted = TRUE]}
              [] m.do = "pause" -> {[called EXCEPT !._paused = TRUE]}
              [] m.do = "resume" -> {[called EXCEPT !._paused = FALSE]}
              [] m.do = "add_complete_receiver" ->
                    IF n < MaxListeners /\ n < Len(Callbacks)
                    THEN {[called EXCEPT !._also_notify =
                              Append(@, Callbacks[n + 1])]}
                    ELSE {}
              [] m.do = "raise" -> {[called EXCEPT !.raised = TRUE]}
    IN  UNION {After1(m) : m \in moves}

\* lines 171-172: the listeners from the i-th on are called in list order; a
\* listener appended during the loop is called by the same loop, and an
\* exception ends it.  The players the loop may leave, when it starts with
\* one of the players ps.
RECURSIVE NotifyFrom(_, _, _, _)
NotifyFrom(ps, i, duty, moves) ==
    IF \A p \in ps : p.raised \/ i > Len(p._also_notify) THEN ps
    ELSE NotifyFrom(UNION {ListenerCall(p, i, duty, moves) : p \in ps},
                    i + 1, duty, moves)

\* lines 171-172 on the player p
Notify(p, i, duty, moves) == NotifyFrom({p}, i, duty, moves)

\* lines 169-172 with the listeners called before the flag is set
on_complete_late_flag(p, duty, moves) ==
    {[q EXCEPT !._complete = TRUE] : q \in Notify(p, 1, duty, moves)}

\* RTTTLPlayer.on_complete (lines 169-172): the flag is set, then the
\* listeners are called
on_complete(p, duty, moves) ==
    Notify([p EXCEPT !._complete = TRUE], 1, duty, moves)

\* lines 185-202 without the write of line 202: the OFF step leaves the tone on
PlayWritesOffKeepsTone(b, note_frequency) ==
    CASE b = "play_end" -> <<<<"duty_cycle", 0>>>>
      [] b \in {"play_on", "play_ZeroDivisionError"} -> OnWrites(note_frequency)
      [] OTHER -> <<>>

\* the writes of play() to the tone output, by branch
PlayWrites(b, note_frequency) ==
    CASE b = "play_end" -> <<<<"duty_cycle", 0>>>>
      [] b = "play_off" -> <<<<"duty_cycle", 0>>>>
      [] b \in {"play_on", "play_ZeroDivisionError"} -> OnWrites(note_frequency)
      [] OTHER -> <<>>

\* what play() returns, or the exception it raises, by branch
PlayReturn(b) ==
    CASE b \in {"play_idle", "play_wait", "play_end"} -> "False"
      [] b \in {"play_on", "play_off"} -> "True"
      [] b = "play_IndexError" -> "IndexError"
      [] b = "play_ZeroDivisionError" -> "ZeroDivisionError"

\* RTTTLPlayer.play (lines 177-206) of a host whose listeners make moves of
\* the set moves
Play(moves) ==
    LET b == PlayBranch
        s == songs[_song]
        pulls == b \in {"play_on", "play_ZeroDivisionError"}
        ws == PlayWrites(b, IF pulls THEN NoteAt(s)[1] ELSE None)
        duty == After(ws, "duty_cycle", duty_cycle)
    IN  \E done \in (IF b = "play_end" THEN on_complete(ThePlayer, duty, moves)
                      ELSE {ThePlayer}) :
        /\ pulls => next_note(s)._loop_count <= MaxLoopCount
        /\ lastOp' = b
        /\ ret' = IF done.raised THEN "Exception" ELSE PlayReturn(b)
        /\ songs' = IF pulls THEN [songs EXCEPT ![_song] = next_note(s)]
                     ELSE done.songs
        /\ writes' = ws
        /\ duty_cycle' = duty
        /\ frequency' = After(ws, "frequency", frequency)
        /\ _complete' = done._complete
        /\ _paused' = done._paused
        /\ _song' = done._song
        /\ _also_notify' = done._also_notify
        /\ stopped' = done.stopped
        /\ halted' = done.halted
        /\ calls' = done.calls
        /\ rewound' = done.rewound
        /\ _next_update_time' =
              CASE b = "play_on" -> clock + NoteMs(NoteAt(s)[2], Val(s.tempo))
                [] b = "play_off" -> clock + TONE_GAP
                [] OTHER -> _next_update_time
        /\ _next_update_state' =
              CASE b = "play_on" -> TONE_OFF
                [] b = "play_off" -> TONE_ON
                [] OTHER -> _next_update_state
        /\ snap' = IF _paused /\ snap # NoSnap THEN <<snap[1], TRUE>> ELSE NoSnap
        /\ UNCHANGED <<clock, produced, ticks, parsed>>

\* RTTTLPlayer.on_complete (lines 169-172) called by the host
OnComplete(moves) ==
    \E done \in on_complete(ThePlayer, duty_cycle, moves) :
        /\ lastOp' = "on_complete"
        /\ ret' = IF done.raised THEN "Exception" ELSE "None"
        /\ writes' = <<>>
        /\ _complete' = done._complete
        /\ _paused' = done._paused
        /\ songs' = done.songs
        /\ _song' = done._song
        /\ _also_notify' = done._also_notify
        /\ stopped' = done.stopped
        /\ halted' = done.halted
        /\ calls' = done.calls
        /\ rewound' = done.rewound
        /\ snap' = NoSnap
        /\ UNCHANGED <<_next_update_time, _next_update_state, frequency,
                       duty_cycle, clock, produced, ticks, parsed>>

\* RTTTLPlayer.reset (lines 217-221) called by the host
PlayerReset ==
    /\ _complete' = FALSE
    /\ _paused' = FALSE
    /\ halted' = FALSE
    /\ songs' = player_reset_songs
    /\ lastOp' = "reset"
    /\ ret' = "None"
    /\ writes' = <<>>
    /\ calls' = <<>>
    /\ rewound' = FALSE
    /\ snap' = NoSnap
    /\ UNCHANGED <<_next_update_time, _next_update_state, _also_notify, _song,
                   frequency, duty_cycle, clock, stopped, produced, ticks,
                   parsed>>

\* RTTTLPlayer.stop (lines 208-209)
Stop ==
    /\ _complete' = TRUE
    /\ lastOp' = "stop"
    /\ ret' = "None"
    /\ writes' = <<>>
    /\ calls' = <<>>
    /\ rewound' = FALSE
    /\ stopped' = TRUE
    /\ halted' = TRUE
    /\ snap' = NoSnap
    /\ UNCHANGED <<songs, _paused, _next_update_time, _next_update_state,
                   _also_notify, _song, frequency, duty_cycle, clock, produced,
                   ticks, parsed>>

\* RTTTLPlayer.pause (lines 211-212)
Pause ==
    /\ _paused' = TRUE
    /\ lastOp' = "pause"
    /\ ret' = "None"
    /\ writes' = <<>>
    /\ calls' = <<>>
    /\ rewound' = FALSE
    /\ snap' = IF _paused /\ snap # NoSnap THEN snap ELSE <<Timing, FALSE>>
    /\ UNCHANGED <<songs, _complete, _next_update_time, _next_update_state,
                   _also_notify, _song, frequency, duty_cycle, clock, stopped, halted,
                   produced, ticks, parsed>>

\* lines 214-215 with the schedule restarted at the time of the call
ResumeRestarts ==
    /\ _paused' = FALSE
    /\ _next_update_time' = clock
    /\ lastOp' = "resume"
    /\ ret' = "None"
    /\ writes' = <<>>
    /\ calls' = <<>>
    /\ rewound' = FALSE
    /\ snap' = IF _paused THEN snap ELSE NoSnap
    /\ UNCHANGED <<songs, _complete, _next_update_state, _also_notify, _song,
                   frequency, duty_cycle, clock, stopped, halted, produced, ticks,
                   parsed>>

\* RTTTLPlayer.resume (lines 214-215)
Resume ==
    /\ _paused' = FALSE
    /\ lastOp' = "resume"
    /\ ret' = "None"
    /\ writes' = <<>>
    /\ calls' = <<>>
    /\ rewound' = FALSE
    /\ snap' = IF _paused THEN snap ELSE NoSnap
    /\ UNCHANGED <<songs, _complete, _next_update_time, _next_update_state,
                   _also_notify, _song, frequency, duty_cycle, clock, stopped, halted,
                   produced, ticks, parsed>>

\* monotonic_ms (lines 13-25) moves on by d between two calls of the host
Advance(d) ==
    /\ ticks' = ticks + 1
    /\ clock' = clock + d
    /\ lastOp' = "tick"
    /\ ret' = "None"
    /\ writes' = <<>>
    /\ calls' = <<>>
    /\ rewound' = FALSE
    /\ snap' = IF _paused THEN snap ELSE NoSnap
    /\ UNCHANGED <<core, stopped, halted, produced, parsed>>

Tick(d) ==
    /\ ticks < MaxTicks
    /\ Advance(d)

\* RTTTLSong.reset (lines 145-146), called by the host on one of its songs
SongReset(s) ==
    /\ songs' = [songs EXCEPT ![s] = reset(@)]
    /\ lastOp' = "song_reset"
    /\ ret' = "None"
    /\ writes' = <<>>
    /\ calls' = <<>>
    /\ rewound' = FALSE
    /\ snap' = NoSnap
    /\ UNCHANGED <<_paused, _complete, _next_update_time, _next_update_state,
                   _also_notify, _song, frequency, duty_cycle, clock, stopped, halted,
                   produced, ticks, parsed>>

Next ==
    \/ \E s \in DOMAIN songs : Load(s)
    \/ \E cb \in {Callbacks[i] : i \in 1..Len(Callbacks)} : AddCompleteReceiver(cb)
    \/ Play(PassiveMoves)
    \/ Stop
    \/ Pause
    \/ Resume
    \/ \E d \in TickSteps : Tick(d)

Spec == Init /\ [][Next]_vars

\* the clock of the host below
HostTick(d) ==
    /\ ticks < HostTicks
    /\ Advance(d)

\* A host that also calls reset() on its songs and reset() and on_complete()
\* on the player, and whose listeners call the player back.
HostNext ==
    \/ \E s \in DOMAIN songs : Load(s)
    \/ \E cb \in {Callbacks[i] : i \in 1..Len(Callbacks)} : AddCompleteReceiver(cb)
    \/ Play(ListenerMoves)
    \/ Stop
    \/ Pause
    \/ Resume
    \/ \E d \in TickSteps : HostTick(d)
    \/ \E s \in DOMAIN songs : SongReset(s)
    \/ PlayerReset
    \/ OnComplete(ListenerMoves)

HostSpec == Init /\ [][HostNext]_vars

\* no note of the song has duration 0 (the divisor at line 198)
NoZeroNotes(s) == \A k \in 1..Len(s._notes) : s._notes[k][2] # 0

\* The host constructs songs without zero-duration notes only.
SoundInit ==
    /\ Init
    /\ \A i \in DOMAIN songs : NoZeroNotes(songs[i])

SoundSpec == SoundInit /\ [][Next]_vars

(***************************************************************************)
(* The constructor and the note parser called directly, on texts built     *)
(* from header tokens and a tune, with and without arguments.              *)
(***************************************************************************)
\* a "d=" token of the header, or none
DTokens == {<<>>, <<"d", "=", "4">>, <<"d", "=", "8">>, <<"d", "=", "0">>}
\* an "o=" token of the header, or none
OTokens == {<<>>, <<"o", "=", "5">>}
\* a "b=" token of the header, or none
BTokens == {<<>>, <<"b", "=", "1", "0", "0">>, <<"b", "=", "0">>,
            <<"b", "=", " ", "1", "0", "0">>}
\* the notes segment
Tunes == {<<>>, <<"c">>, <<"8", "p", ",", "c">>}
\* the octave, duration and tempo arguments of the constructor
OctaveArgs == {None, OInt(4), OInt(0)}
DurationArgs == {None, Some(16), Some(0)}
TempoArgs == {None, Some(120), Some(0)}
\* the tokens, default durations and default octaves _parse_note is given
NoteTokens ==
    {<<"3", "6", "c", "5">>, <<"c">>, <<"8", "p">>, <<"4", "c", "#", ".">>,
     <<"2", "a", "4">>, <<"1", "6", ".", "d">>, <<"c", "#", "7">>, <<>>, <<"\t", "c">>}
NoteDurations == {4, 8}
NoteOctaves == {5, 6}

\* ",".join of the tokens that are present
RECURSIVE JoinPresent(_)
JoinPresent(tokens) ==
    IF tokens = <<>> THEN <<>>
    ELSE LET rest == JoinPresent(Tail(tokens))
         IN  IF Head(tokens) = <<>> THEN rest
             ELSE IF rest = <<>> THEN Head(tokens)
             ELSE Head(tokens) \o <<",">> \o rest

\* the text "n:<header>:<tune>"
SongText(d, o, b, tune) ==
    <<"n", ":">> \o JoinPresent(<<d, o, b>>) \o <<":">> \o tune

\* the calls the host may make: the arguments, and no result yet
ConstructCalls ==
    {[call |-> "RTTTLSong", d |-> d, o |-> o, b |-> b, tune |-> tune,
      octave |-> octave, duration |-> duration, tempo |-> tempo,
      result |-> None] :
        d \in DTokens, o \in OTokens, b \in BTokens, tune \in Tunes,
        octave \in OctaveArgs, duration \in DurationArgs, tempo \in TempoArgs}

ParseNoteCalls ==
    {[call |-> "_parse_note", token |-> token, duration |-> duration,
      octave |-> octave, result |-> None] :
        token \in NoteTokens, duration \in NoteDurations,
        octave \in NoteOctaves}

ParseInit ==
    /\ songs = <<>>
    /\ PlayerInit
    /\ parsed \in ConstructCalls \cup ParseNoteCalls

\* RTTTLSong(text, octave, duration, tempo) (lines 97-128)
Construct ==
    /\ parsed.call = "RTTTLSong"
    /\ IsNone(parsed.result)
    /\ parsed' = [parsed EXCEPT !.result =
                      Some(RTTTLSong(SongText(parsed.d, parsed.o, parsed.b,
                                              parsed.tune),
                                     parsed.octave, parsed.duration,
                                     parsed.tempo, 0))]
    /\ lastOp' = "RTTTLSong"
    /\ UNCHANGED <<core, clock, ret, writes, calls, rewound, stopped, halted, snap, produced,
                   ticks>>

\* _parse_note(token, duration, octave) (lines 73-93)
ParseNote ==
    /\ parsed.call = "_parse_note"
    /\ IsNone(parsed.result)
    /\ parsed' = [parsed EXCEPT !.result =
                      Some(_parse_note(parsed.token, parsed.duration,
                                       str(parsed.octave)))]
    /\ lastOp' = "_parse_note"
    /\ UNCHANGED <<core, clock, ret, writes, calls, rewound, stopped, halted, snap, produced,
                   ticks>>

ParseNext ==
    \/ Construct
    \/ ParseNote

ParseSpec == ParseInit /\ [][ParseNext]_vars

(***************************************************************************)
(* A song driven by next_note() alone, called while complete is false.     *)
(***************************************************************************)
SongHeader == <<"s", ":", "d", "=", "4", ",", "o", "=", "5", ",", "b", "=", "6", "3", ":">>
SongTokens == {<<"c">>, <<"8", "p">>}

\* ",".join(tokens)
RECURSIVE Join(_)
Join(tokens) ==
    IF Len(tokens) = 1 THEN tokens[1]
    ELSE tokens[1] \o <<",">> \o Join(Tail(tokens))

SongInit ==
    /\ \E L \in 1..MaxNotes, N \in 0..MaxLoops :
          \E tokens \in [1..L -> SongTokens] :
              songs = [i \in {1} |->
                          RTTTLSong(SongHeader \o Join(tokens), None, None,
                                    None, N)]
    /\ PlayerInit
    /\ parsed = <<>>

\* note = song.next_note(), the caller having checked song.complete
SongNextNote ==
    /\ ~complete(songs[1])
    /\ produced' = Append(produced, NoteAt(songs[1]))
    /\ songs' = [songs EXCEPT ![1] = next_note(songs[1])]
    /\ lastOp' = "next_note"
    /\ UNCHANGED <<_paused, _complete, _next_update_time, _next_update_state,
                   _also_notify, _song, frequency, duty_cycle, clock, ret,
                   writes, calls, rewound, stopped, halted, snap, ticks, parsed>>

SongNext == SongNextNote

SongSpec == SongInit /\ [][SongNext]_vars

(***************************************************************************)
(* The claims.                                                             *)
(***************************************************************************)
Loaded == songs[_song]

\* a poll that is due on a loaded song, the player neither paused nor complete
DuePoll ==
    /\ ~_paused
    /\ ~_complete
    /\ _song # NoSong
    /\ ~(clock < _next_update_time)

\* C1, as claimed: after stop(), until the next load(), every poll returns
\* false, writes nothing to the tone output and calls no listener.
C1_StopEndsPolling ==
    [][stopped /\ lastOp' \in PlayOps =>
          /\ ret' = "False"
          /\ writes' = <<>>
          /\ calls' = <<>>]_vars

\* C1, amended: after stop(), until the next load() or reset() of the player
\* (called by the host or by a listener), the complete flag stays set and
\* every poll returns false at line 179, writes nothing to the tone output
\* and calls no listener.
C1_StopEndsPollingUntilReset ==
    [][/\ halted' => _complete'
       /\ halted /\ lastOp' \in PlayOps =>
             /\ lastOp' = "play_idle"
             /\ ret' = "False"
             /\ writes' = <<>>
             /\ calls' = <<>>]_vars

\* a poll after stop() that would otherwise have notified two listeners
C1_Witness ==
    /\ halted
    /\ lastOp = "play_idle"
    /\ ~_paused
    /\ _song # NoSong
    /\ ~(clock < _next_update_time)
    /\ complete(Loaded)
    /\ Len(_also_notify) = 2

\* C2, as claimed: when the completion notification fires, the OFF step of
\* the last note has run (so the pending tone phase is TONE_ON again).
C2_OffStepBeforeCompletion ==
    lastOp = "play_end" => _next_update_state = TONE_ON

\* C2, amended: the OFF step of the last note never runs.  The ON step that
\* pulls the last note leaves the song complete; an OFF step only ever runs
\* on a song that is not complete, and a due poll that finds the song
\* complete is the end of the cycle: it silences the tone itself and leaves
\* the schedule and the pending tone phase as they are (no 20 ms gap).  A
\* one-note song of duration 4 at tempo 63 is scheduled for 952 ms by its ON
\* step, which leaves the song complete.
C2_CompletionAfterOnStep ==
    [][ /\ lastOp' = "play_end" =>
              /\ UNCHANGED <<_next_update_state, _next_update_time>>
              /\ writes' = <<<<"duty_cycle", 0>>>>
        /\ lastOp' = "play_off" => (~complete(Loaded) /\ ~complete(Loaded'))
        /\ (lastOp' \in PlayOps /\ DuePoll /\ complete(Loaded)) =>
              lastOp' = "play_end"
        /\ ( /\ lastOp' = "play_on"
             /\ Loaded._loops = 0
             /\ Loaded._notes = <<<<Some(523), 2 * 4>>>>
             /\ Loaded.tempo = Some(63) ) =>
              /\ _next_update_time' = clock + 952
              /\ complete(Loaded')
      ]_vars

\* the one-note song of tempo 63 completes at 952 ms, no OFF step having run
C2_Witness ==
    /\ lastOp = "play_end"
    /\ Loaded._notes = <<<<Some(523), 2 * 4>>>>
    /\ Loaded.tempo = Some(63)
    /\ _next_update_time = 952
    /\ clock = 952
    /\ _next_update_state = TONE_OFF
    /\ Len(calls) = 2


\* C4: a fresh song of L >= 1 notes and loops = N >= 0, driven by next_note()
\* while complete is false, is complete after exactly L * (N + 1) calls and
\* not before, and has returned notes[0..L-1] over and over, in order.
C4_NotesBeforeCompletion ==
    LET s == songs[1]
        L == Len(s._notes)
        n == Len(produced)
    IN  /\ n <= L * (s._loops + 1)
        /\ complete(s) <=> n = L * (s._loops + 1)
        /\ \A i \in 1..n : produced[i] = s._notes[((i - 1) % L) + 1]

\* a song of two different notes and two repeats, played to its end
C4_Witness ==
    /\ Len(songs[1]._notes) = 2
    /\ songs[1]._notes[1] # songs[1]._notes[2]
    /\ songs[1]._loops = 2
    /\ Len(produced) = 6
    /\ complete(songs[1])

\* C5: a song with loops = -1 is never complete, whatever the player has
\* done with it; while it is loaded the player never reaches the end of a
\* cycle, so the complete flag is only ever set by stop() and no listener is
\* called.
C5_ForeverNeverCompletes ==
    \A s \in DOMAIN songs :
        (songs[s]._loops = -1 /\ Len(songs[s]._notes) >= 1) =>
            /\ ~complete(songs[s])
            /\ _song = s =>
                  /\ lastOp # "play_end"
                  /\ calls = <<>>
                  /\ _complete => stopped

\* the song has wrapped twice, the second time by a sounding ON step
C5_Witness ==
    /\ _song # NoSong
    /\ Loaded._loops = -1
    /\ Loaded._loop_count >= 2
    /\ Loaded._notes_index = 0
    /\ lastOp = "play_on"
    /\ Len(_also_notify) >= 1

\* C6: after stop(), until the next load(), the tone output is at zero duty.
C6_StopSilencesTone ==
    stopped => duty_cycle = 0

\* C7: every poll returns true or false; none raises.
C7_PollNeverRaises ==
    lastOp \in PlayOps => ret \in {"True", "False"}

\* C8: a poll made while the player is paused, or complete, or has no song
\* returns false and changes nothing: no player, song or tone state, no write
\* to the tone output, no listener call.
C8_GuardedPollIsNoOp ==
    [][ (lastOp' \in PlayOps /\ (_paused \/ _complete \/ _song = NoSong)) =>
            /\ lastOp' = "play_idle"
            /\ ret' = "False"
            /\ writes' = <<>>
            /\ calls' = <<>>
            /\ UNCHANGED core
      ]_vars

\* a poll of a paused player whose next step was due
C8_Witness ==
    /\ lastOp = "play_idle"
    /\ _paused
    /\ ~_complete
    /\ _song # NoSong
    /\ ~(clock < _next_update_time)
    /\ ~complete(Loaded)
    /\ duty_cycle = DutyOn

\* C9: of two polls with no clock change between them, the second returns
\* false and changes nothing.
C9_SecondPollSameTickIsNoOp ==
    [][ (lastOp \in PlayOps /\ lastOp' \in PlayOps) =>
            /\ ret' = "False"
            /\ UNCHANGED core
      ]_vars

\* C10: pause() and resume() change the paused flag only, and after pause(),
\* any polls and clock changes, and resume(), the schedule, the tone phase,
\* the loaded song, every song's cursor and loop count and the complete flag
\* are what they were at pause().
C10_PauseResumeKeepTiming ==
    [][ /\ lastOp' \in {"pause", "resume"} =>
              UNCHANGED <<songs, _complete, _next_update_time,
                          _next_update_state, _also_notify, _song, frequency,
                          duty_cycle, clock>>
        /\ lastOp' = "pause" => _paused'
        /\ lastOp' = "resume" => ~_paused'
        /\ (lastOp' = "resume" /\ snap # NoSnap) => Timing' = snap[1]
      ]_vars

\* resumed after polls made while paused, with the ON phase the pause
\* interrupted now over: the next poll steps at once
C10_Witness ==
    /\ lastOp = "resume"
    /\ snap # NoSnap
    /\ snap[2]
    /\ _song # NoSong
    /\ ~_complete
    /\ _next_update_state = TONE_OFF
    /\ duty_cycle = DutyOn
    /\ clock > _next_update_time

\* C11: load() clears the complete and paused flags, rewinds the song that
\* was loaded before it (and changes nothing else of any song), installs a
\* song of the host, and leaves the tone phase, the scheduled time, the tone
\* output and the listeners as they were; at a completion every listener
\* registered so far is called, in order.
C11_LoadFrame ==
    [][ /\ lastOp' = "load" =>
            /\ ~_complete'
            /\ ~_paused'
            /\ _song' \in DOMAIN songs
            /\ DOMAIN songs' = DOMAIN songs
            /\ \A i \in DOMAIN songs :
                  IF i = _song
                  THEN /\ songs'[i]._notes_index = 0
                       /\ songs'[i] = [songs[i] EXCEPT !._notes_index = 0]
                  ELSE songs'[i] = songs[i]
            /\ UNCHANGED <<_next_update_state, _next_update_time, frequency,
                           duty_cycle, _also_notify>>
        /\ lastOp' = "play_end" =>
            /\ Len(calls') = Len(_also_notify)
            /\ \A i \in 1..Len(calls') : calls'[i].callback = _also_notify[i]
      ]_vars

\* a load() made while a tone sounds and its OFF step is pending, with two
\* listeners registered, over a song that had been played to its end
C11_Witness ==
    /\ lastOp = "load"
    /\ Len(_also_notify) = 2
    /\ duty_cycle = DutyOn
    /\ _next_update_state = TONE_OFF
    /\ _next_update_time > clock
    /\ \E i \in DOMAIN songs : i # _song /\ songs[i]._loop_count > 0

\* C12: whatever the host calls on the player and whichever songs it resets,
\* each song's cursor stays within 0..len(notes), its notes are the notes its
\* constructor built, and it is complete exactly when the cursor is at
\* len(notes).
C12_SongInvariants ==
    \A i \in DOMAIN songs :
        /\ 0 <= songs[i]._notes_index
        /\ songs[i]._notes_index <= Len(songs[i]._notes)
        /\ songs[i]._notes = Built[i]._notes
        /\ complete(songs[i]) <=> songs[i]._notes_index = Len(songs[i]._notes)

\* the host rewound the loaded song, which had played to its end, while the
\* player was complete and two listeners were registered
C12_Witness ==
    /\ lastOp = "song_reset"
    /\ _song # NoSong
    /\ _complete
    /\ Len(_also_notify) = 2
    /\ Loaded._loops = 0
    /\ Loaded._loop_count = 1
    /\ Loaded._notes_index = 0
    /\ clock = 952

\* C13: an ON step that pulls a rest leaves the tone output at zero duty
\* (it writes nothing to it, and the output was silent before it), and still
\* consumes the note: the song is the one next_note() leaves, the step is
\* scheduled to end a note duration later and the pending phase becomes OFF.
C13_RestIsSilent ==
    [][ (lastOp' = "play_on" /\ IsNone(NoteAt(Loaded)[1])) =>
            /\ duty_cycle' = 0
            /\ writes' = <<>>
            /\ ret' = "True"
            /\ songs' = [songs EXCEPT ![_song] = next_note(Loaded)]
            /\ _next_update_time' =
                  clock + TruncDiv(480000, NoteAt(Loaded)[2] * Val(Loaded.tempo))
            /\ _next_update_state' = TONE_OFF
      ]_vars

\* C14: for every combination of a present or absent constructor argument
\* and header token, construction succeeds with the argument when one was
\* passed, else the header's value when the header has the token, else the
\* fallback (duration 4, octave 6, tempo 63).
C14_ThreeTierPrecedence ==
    (parsed # <<>> /\ parsed.call = "RTTTLSong" /\ ~IsNone(parsed.result)
        /\ parsed.tune # <<>>) =>
        LET r == Val(parsed.result)
        IN  /\ r.error = "none"
            /\ Val(r.duration) =
                  IF ~IsNone(parsed.duration) THEN Val(parsed.duration)
                  ELSE IF parsed.d # <<>> THEN int(From2(parsed.d))
                  ELSE 4
            /\ OctaveStr(r.octave) =
                  IF ~IsNone(parsed.octave) THEN OctaveStr(parsed.octave)
                  ELSE IF parsed.o # <<>> THEN From2(parsed.o)
                  ELSE str(6)
            /\ Val(r.tempo) =
                  IF ~IsNone(parsed.tempo) THEN Val(parsed.tempo)
                  ELSE IF parsed.b # <<>> THEN int(From2(parsed.b))
                  ELSE 63

\* the call _parse_note("36c5", 4, 6), once it has returned
C15_Witness ==
    /\ parsed # <<>>
    /\ parsed.call = "_parse_note"
    /\ parsed.token = <<"3", "6", "c", "5">>
    /\ parsed.duration = 4
    /\ parsed.octave = 6
    /\ ~IsNone(parsed.result)

\* C15 as stated: "36c5" parsed with default duration 4 and default octave 6
\* yields the pitch key "5c" and the duration 3.
C15_Parse36c5DurationThree ==
    C15_Witness =>
        /\ Val(parsed.result).error = "none"
        /\ Val(parsed.result).piano_note = <<"5", "c">>
        /\ Val(parsed.result).note_duration = 2 * 3

\* C15: "36c5" parsed with default duration 4 and default octave 6 yields
\* the pitch key "5c" and the duration 36 (both leading digits).
C15_Parse36c5 ==
    C15_Witness =>
        /\ Val(parsed.result).error = "none"
        /\ Val(parsed.result).piano_note = <<"5", "c">>
        /\ Val(parsed.result).note_duration = 2 * 36

\* C16: constructing a song from a text whose notes segment is empty
\* succeeds and gives a song of zero notes, complete from the start.
C16_EmptyTuneIsValid ==
    (parsed # <<>> /\ parsed.call = "RTTTLSong" /\ ~IsNone(parsed.result)
        /\ parsed.tune = <<>>
        /\ parsed.d = <<"d", "=", "4">> /\ parsed.o = <<"o", "=", "5">>
        /\ parsed.b = <<"b", "=", "1", "0", "0">>) =>
        /\ Val(parsed.result).error = "none"
        /\ Val(parsed.result)._notes = <<>>
        /\ complete(Val(parsed.result))

\* C17: an ON step at time t schedules the next step at
\* t + trunc(4 / d * 60 * 1000 / T) for a note of d beats at tempo T, an OFF
\* step at t + 20; the scheduled time changes at these steps only; and every
\* poll made while the clock is before the scheduled time returns false and
\* changes nothing, writes nothing and calls no listener.
C17_NoStepBeforeScheduledTime ==
    [][ /\ lastOp' = "play_on" =>
              _next_update_time' =
                  clock + (480000 \div (NoteAt(Loaded)[2] * Val(Loaded.tempo)))
        /\ lastOp' = "play_off" => _next_update_time' = clock + 20
        /\ _next_update_time' # _next_update_time =>
              lastOp' \in {"play_on", "play_off"}
        /\ clock' >= clock
        /\ (lastOp' \in PlayOps /\ clock < _next_update_time) =>
              /\ ret' = "False"
              /\ writes' = <<>>
              /\ calls' = <<>>
              /\ UNCHANGED core
      ]_vars

\* a poll 20 ms into a 952 ms note, the tone sounding
C17_Witness ==
    /\ lastOp = "play_wait"
    /\ ret = "False"
    /\ ~_paused
    /\ duty_cycle = DutyOn
    /\ _next_update_state = TONE_OFF
    /\ _next_update_time = 952
    /\ clock = 20

\* C18: over songs without zero-duration notes, whenever the pending phase is
\* TONE_ON the tone output is at zero duty; the duty is non-zero (half duty)
\* only while the pending phase is TONE_OFF.
C18_ToneOnlyWhileOffPending ==
    /\ duty_cycle \in {0, DutyOn}
    /\ _next_update_state \in {TONE_ON, TONE_OFF}
    /\ _next_update_state = TONE_ON => duty_cycle = 0
    /\ duty_cycle # 0 => _next_update_state = TONE_OFF

\* an OFF step has silenced a sounded note and the next ON step is pending
C18_Witness ==
    /\ lastOp = "play_off"
    /\ writes = <<<<"duty_cycle", 0>>>>
    /\ frequency = 523
    /\ duty_cycle = 0
    /\ _next_update_state = TONE_ON
    /\ \A i \in DOMAIN songs : NoZeroNotes(songs[i])

\* C19: with the songs advanced by the player's polls only, the song a load()
\* installs has its cursor at 0, whether fresh, loaded already or swapped out
\* before (every song but the loaded one sits at cursor 0); the cursor stays
\* at 0 until an ON step pulls a note, and that step sounds notes[0].
C19_LoadStartsAtFirstNote ==
    [][ /\ lastOp' = "load" => songs'[_song']._notes_index = 0
        /\ \A i \in DOMAIN songs' : i # _song' => songs'[i]._notes_index = 0
        /\ (_song # NoSong /\ Loaded._notes_index = 0 /\ lastOp' # "load") =>
              IF lastOp' \in {"play_on", "play_ZeroDivisionError"}
              THEN writes' = OnWrites(Loaded._notes[1][1])
              ELSE songs'[_song]._notes_index = 0
      ]_vars

\* a song that had been played to its end is loaded again, after another
\* song was played
C19_Witness ==
    /\ lastOp = "load"
    /\ Loaded._loops = 0
    /\ Loaded._loop_count = 1
    /\ Loaded._notes_index = 0
    /\ \E i \in DOMAIN songs : i # _song /\ songs[i]._loop_count = 1

\* C20: no call decreases a song's loop count, and load() and reset() change
\* nothing of a song but its cursor; a completion is notified only when the
\* loaded song has used up its loops; and once a song with loops >= 1 has
\* used them up, each ON step moves its cursor one note on without starting
\* over, so that from the cursor 0 a load() leaves, len(notes) notes are
\* played before the next completion.
C20_LoopCountNeverDecreases ==
    [][ /\ \A i \in DOMAIN songs :
              songs'[i]._loop_count >= songs[i]._loop_count
        /\ lastOp' \in {"load", "song_reset", "reset", "on_complete", "play_end"} =>
              \A i \in DOMAIN songs :
                  songs'[i] = [songs[i] EXCEPT
                                  !._notes_index = songs'[i]._notes_index]
        /\ lastOp' = "play_end" =>
              (Loaded._loops >= 0 /\ Loaded._loop_count > Loaded._loops)
        /\ (lastOp' = "play_on" /\ Loaded._loops >= 1
                /\ Loaded._loop_count > Loaded._loops) =>
              /\ songs'[_song]._notes_index = Loaded._notes_index + 1
              /\ complete(songs'[_song]) <=>
                    Loaded._notes_index + 1 = Len(Loaded._notes)
      ]_vars

\* the second completion of a song with loops >= 1: its loops + 1 passes,
\* then, loaded again, one pass more
C20_Witness ==
    /\ lastOp = "play_end"
    /\ Loaded._loops >= 1
    /\ Loaded._loop_count = Loaded._loops + 2
    /\ complete(Loaded)

====
